---- MODULE Spec2Model ----
(***************************************************************************)
(* Model of common/download.go: the DownloadClient (NewDownloadClient,     *)
(* Get, PercentProgress, Cancel) and the HTTPDownloader (Download,         *)
(* Progress, Total, Cancel).                                               *)
(*                                                                         *)
(* Scaling. The machine word of Go's uint/int is UintBits wide here (64 on *)
(* the real targets), the read buffer holds BufferSize bytes (4096 in the  *)
(* code) and sources hold at most MaxSrc bytes.  Source byte i is the      *)
(* number i, so order and identity of bytes are visible; 0 is a byte of an   *)
(* older destination content and -1 a byte of an error body.               *)
(* An HTTPDownloader serves one Download call: instances are not reused    *)
(* across calls.                                                           *)
(***************************************************************************)
EXTENDS Integers, Sequences, FiniteSets, TLC

\* ---------------------------------------------------------------- bounds
MaxSrc == 3
MaxStale == 2
BufferSize == 2
UintBits == 6

Nil == "nil"

UintMod == 2 ^ UintBits
IntMin == 0 - 2 ^ (UintBits - 1)
IntMax == 2 ^ (UintBits - 1) - 1

Min(a, b) == IF a <= b THEN a ELSE b
Max(a, b) == IF a >= b THEN a ELSE b

\* uint(x) for an int64 x: two's complement reinterpretation.
Uint(x) == x % UintMod

\* The source served at the URL: bytes 1..n in order.
SourceOf(n) == [i \in 1..n |-> i]
StaleOf(n) == [i \in 1..n |-> 0]
ErrorBodies == {<< >>, <<-1>>}

VARIABLES
    src,        \* content the server holds for the URL
    dst0,       \* content of the destination file when Download was called
    file,       \* content of the destination file dst
    pos,        \* write offset of the handle dst
    heap,       \* HTTPDownloader objects by address: progress, total, userAgent
    dl,         \* receiver of the running Download call (0: none yet)
    pc,         \* position of the Download call
    ret,        \* what Download returned (Nil: no error; "none": not returned)
    req,        \* headers of the request object
    probe,      \* outcome of the HEAD request of this call
    resp,       \* the GET response: status and ContentLength
    body,       \* bytes of the GET response body not yet read
    buffer,     \* buffer[:n] after the last Read
    eof,        \* the last Read returned io.EOF
    firstOff,   \* offset of the first body byte this call wrote (-1: none yet)
    sent,       \* the whole body of the GET response, as the server sent it
    ioErr,      \* the error a body Read or a dst Write gave ("none": none did)
    wire,       \* methods of the requests this call has issued, in order
    cfg,        \* the DownloadConfig the caller built
    cfgIn,      \* cfg as it was handed to the first NewDownloadClient
    client,     \* the DownloadClient: constructed, and its downloader (0: nil)
    getPc,      \* position of the DownloadClient.Get call
    getRet,     \* what Get returned: path and error
    fetches,    \* gc.Get() invocations made by the current Get call
    getErr,     \* the error os.Getwd or gc.Get gave the current Get call
    pctRet      \* last PercentProgress call: the value returned, and what the
                \* call found (Get under way or done, the downloader's counters)

dvars == <<src, dst0, file, pos, heap, dl, pc, ret, req, probe, resp, body,
           buffer, eof, firstOff, sent, ioErr, wire>>
cvars == <<cfg, cfgIn, client, getPc, getRet, fetches, getErr, pctRet>>
vars == <<src, dst0, file, pos, heap, dl, pc, ret, req, probe, resp, body,
          buffer, eof, firstOff, sent, ioErr, wire, cfg, cfgIn, client, getPc, getRet, fetches,
          getErr, pctRet>>

\* ------------------------------------------------------- HTTPDownloader
Progress(id) == heap[id].progress
Total(id) == heap[id].total

\* A Write that appends to the file whatever the handle's offset.
WriteAtEnd(f, p, b) == f \o b

\* os.File.Write at offset p: overwrites, extends, never truncates.
WriteAt(f, p, b) ==
    [i \in 1..Max(Len(f), p + Len(b)) |->
        IF i > p /\ i <= p + Len(b) THEN b[i - p] ELSE f[i]]

\* A Range header that asks for the whole resource whatever the size.
RangeHeaderFromZero(size) == <<"bytes=", 0, "-">>

\* fmt.Sprintf("bytes=%d-", size)
RangeHeader(size) == <<"bytes=", size, "-">>

\* A request without User-Agent and Range headers.
NoHeaders == [UserAgent |-> "", Range |-> << >>]
NoProbe == [err |-> "unsent", status |-> 0, acceptRanges |-> "", fs |-> "unused"]
NoResponse == [status |-> 0, ContentLength |-> 0]

\* Download without its initial dst.Seek(0, 0): the handle stays where it was.
StartOffsetKept(p) == p

\* dst.Seek(0, 0): the write offset Download starts from.
StartOffset(p) == 0

\* The range condition without the check of the probe's status code.
RangeAdvertisedAnyStatus(pr) ==
    /\ pr.err = Nil
    /\ pr.acceptRanges = "bytes"

\* The condition under which the range query is attempted.
RangeAdvertised(pr) ==
    /\ pr.err = Nil
    /\ pr.status >= 200 /\ pr.status < 300
    /\ pr.acceptRanges = "bytes"

ProbeOutcomes ==
    {[err |-> "errHead", status |-> 0, acceptRanges |-> ""]}
    \cup [err : {Nil}, status : {200, 404}, acceptRanges : {"bytes", ""}]

\* What a server may answer to the GET, given the Range header it received.
GetResponses(range) ==
    LET n == Len(src)
        full == {[status |-> 200, body |-> src]}
        part == IF range /= << >> /\ range[2] < n
                THEN {[status |-> 206, body |-> SubSeq(src, range[2] + 1, n)]}
                ELSE {}
        unsat == IF range /= << >> /\ range[2] >= n
                 THEN [status : {416}, body : ErrorBodies]
                 ELSE {}
        fail == [status : {404}, body : ErrorBodies]
    IN full \cup part \cup unsat \cup fail

\* d.total = uint(resp.ContentLength): the resume offset left out.
TotalOfLengthOnly(p, cl) == Uint(cl)

\* d.total = d.progress + uint(resp.ContentLength)
TotalOf(p, cl) == (p + Uint(cl)) % UintMod

\* d.progress = uint(n): the counter assigned where the code adds to it.
ProgressAssigned(p, n) == Uint(n)

\* d.progress += uint(n)
ProgressAfter(p, n) == (p + Uint(n)) % UintMod

SetField(id, f, v) == heap' = [heap EXCEPT ![id] = [@ EXCEPT ![f] = v]]

\* Download returning nil whatever error it met.
ReturnNil(e) == /\ ret' = Nil
                /\ pc' = "done"

Return(e) == /\ ret' = e
             /\ pc' = "done"

\* A request that is issued again after its first attempt (a retry).
SendTwice(method) == wire' = wire \o <<method, method>>

\* httpClient.Do(req): one request with the given method goes out.
Send(method) == wire' = Append(wire, method)

\* A loop without its break: it reads on after io.EOF.
LoopNeverExits(end) == FALSE

\* if err == io.EOF { break }
LoopExits(end) == end

\* Download, entry: dst.Seek(0, 0).
DownloadCall(id) ==
    /\ pc = "idle"
    /\ dl' = id
    /\ req' = NoHeaders
    /\ probe' = NoProbe /\ resp' = NoResponse /\ body' = << >> /\ buffer' = << >>
    /\ eof' = FALSE /\ firstOff' = -1
    /\ sent' = << >> /\ ioErr' = "none" /\ wire' = << >>
    /\ \E ok \in BOOLEAN :
        IF ok THEN /\ pos' = StartOffset(pos)
                   /\ pc' = "reset"
                   /\ ret' = "none"
              ELSE /\ pos' = pos
                   /\ Return("errSeek")
    /\ UNCHANGED <<src, dst0, file, heap>>
    /\ UNCHANGED cvars

\* d.progress = 0; http.NewRequest("HEAD", ...); the User-Agent header.
DownloadReset ==
    /\ pc = "reset"
    /\ SetField(dl, "progress", 0)
    /\ \E ok \in BOOLEAN :
        IF ok THEN /\ req' = [req EXCEPT !.UserAgent = heap[dl].userAgent]
                   /\ pc' = "head"
                   /\ ret' = ret
              ELSE /\ req' = req
                   /\ Return("errNewRequest")
    /\ UNCHANGED <<src, dst0, file, pos, dl, probe, resp, body, buffer, eof,
                   firstOff, sent, ioErr, wire>>
    /\ UNCHANGED cvars

\* httpClient.Do(req) with HEAD, then the attempt to set the range query:
\* dst.Stat(), dst.Seek(0, os.SEEK_END), the Range header, d.progress.
DownloadProbe ==
    /\ pc = "head"
    /\ \E pr \in ProbeOutcomes, fs \in {"ok", "errStat", "errSeek"} :
        LET tried == RangeAdvertised(pr)
            resume == tried /\ fs = "ok"
        IN /\ probe' = [err |-> pr.err, status |-> pr.status,
                        acceptRanges |-> pr.acceptRanges,
                        fs |-> IF tried THEN fs ELSE "unused"]
           /\ (~tried => fs = "ok")
           /\ IF resume
              THEN /\ pos' = Len(file)
                   /\ req' = [req EXCEPT !.Range = RangeHeader(Len(file))]
                   /\ SetField(dl, "progress", Uint(Len(file)))
              ELSE UNCHANGED <<pos, req, heap>>
    /\ Send("HEAD")
    /\ pc' = "get"
    /\ UNCHANGED <<src, dst0, file, dl, ret, resp, body, buffer, eof, firstOff,
                   sent, ioErr>>
    /\ UNCHANGED cvars

\* req.Method = "GET"; resp, err = httpClient.Do(req)
DownloadGet ==
    /\ pc = "get"
    /\ Send("GET")
    /\ \/ /\ Return("errGet")
          /\ UNCHANGED <<resp, body, sent>>
       \/ \E r \in GetResponses(req.Range), known \in BOOLEAN :
            /\ resp' = [status |-> r.status,
                        ContentLength |-> IF known THEN Len(r.body) ELSE -1]
            /\ body' = r.body
            /\ sent' = r.body
            /\ pc' = "total"
            /\ ret' = ret
    /\ UNCHANGED <<src, dst0, file, pos, heap, dl, req, probe, buffer, eof,
                   firstOff, ioErr>>
    /\ UNCHANGED cvars

\* d.total = d.progress + uint(resp.ContentLength)
DownloadTotal ==
    /\ pc = "total"
    /\ SetField(dl, "total", TotalOf(Progress(dl), resp.ContentLength))
    /\ pc' = "read"
    /\ UNCHANGED <<src, dst0, file, pos, dl, ret, req, probe, resp, body,
                   buffer, eof, firstOff, sent, ioErr, wire>>
    /\ UNCHANGED cvars

\* n, err := resp.Body.Read(buffer[:]); the error check; d.progress += uint(n).
\* A Read delivers 1..BufferSize of the remaining bytes, with io.EOF at once or
\* on a later empty Read; it may fail instead (connection lost, body shorter
\* than its declared length), whatever it had in hand.
DownloadRead ==
    /\ pc = "read"
    /\ \/ /\ ioErr' = "errRead"
          /\ Return("errRead")
          /\ UNCHANGED <<heap, body, buffer, eof>>
       \/ \E n \in 0..Min(BufferSize, Len(body)), end \in BOOLEAN :
            /\ n = 0 => (Len(body) = 0 /\ end)
            /\ end => n = Len(body)
            /\ buffer' = SubSeq(body, 1, n)
            /\ body' = SubSeq(body, n + 1, Len(body))
            /\ eof' = end
            /\ SetField(dl, "progress", ProgressAfter(Progress(dl), n))
            /\ ioErr' = ioErr
            /\ pc' = "write"
            /\ ret' = ret
    /\ UNCHANGED <<src, dst0, file, pos, dl, req, probe, resp, firstOff, sent,
                   wire>>
    /\ UNCHANGED cvars

\* dst.Write(buffer[:n]) and the end of the loop body. A failing Write may have
\* written a proper prefix of the chunk.
DownloadWrite ==
    /\ pc = "write"
    /\ \E k \in 0..Len(buffer) :
        /\ file' = WriteAt(file, pos, SubSeq(buffer, 1, k))
        /\ pos' = pos + k
        /\ firstOff' = IF firstOff = -1 /\ k > 0 THEN pos ELSE firstOff
        /\ \/ /\ k = Len(buffer)
              /\ ioErr' = ioErr
              /\ IF LoopExits(eof) THEN Return(Nil)
                                   ELSE pc' = "read" /\ ret' = ret
           \/ /\ k < Len(buffer) \/ k = 0
              /\ ioErr' = "errWrite"
              /\ Return("errWrite")
    /\ UNCHANGED <<src, dst0, heap, dl, req, probe, resp, body, buffer, eof,
                   sent, wire>>
    /\ UNCHANGED cvars

Download ==
    \/ \E id \in DOMAIN heap : DownloadCall(id)
    \/ DownloadReset
    \/ DownloadProbe
    \/ DownloadGet
    \/ DownloadTotal
    \/ DownloadRead
    \/ DownloadWrite

\* func (*HTTPDownloader) Cancel(): empty.
HTTPCancel ==
    /\ UNCHANGED dvars
    /\ UNCHANGED cvars

\* ------------------------------------------------------- DownloadClient
\* &HTTPDownloader{}: the user-agent of the configuration dropped.
NewHTTPDownloaderNoAgent(ua) == [progress |-> 0, total |-> 0, userAgent |-> ""]

\* &HTTPDownloader{userAgent: ua}: both counters are zero values.
NewHTTPDownloader(ua) == [progress |-> 0, total |-> 0, userAgent |-> ua]

\* c.DownloaderMap == nil
NoDownloaderMap(c) == c.DownloaderMap.isNil

\* Addresses of the two objects the map literal allocates.
FreshIds == LET top == CHOOSE i \in DOMAIN heap : \A j \in DOMAIN heap : j <= i
            IN <<top + 1, top + 2>>

NewDownloadClient ==
    /\ IF NoDownloaderMap(cfg)
       THEN /\ heap' = heap @@ (FreshIds[1] :> NewHTTPDownloader(cfg.UserAgent))
                            @@ (FreshIds[2] :> NewHTTPDownloader(cfg.UserAgent))
            /\ cfg' = [cfg EXCEPT !.DownloaderMap =
                         [isNil |-> FALSE,
                          m |-> ("http" :> FreshIds[1]) @@ ("https" :> FreshIds[2])]]
       ELSE UNCHANGED <<heap, cfg>>
    /\ client' = [constructed |-> TRUE, downloader |-> 0]
    /\ UNCHANGED <<src, dst0, file, pos, dl, pc, ret, req, probe, resp, body,
                   buffer, eof, firstOff, sent, ioErr, wire>>
    /\ UNCHANGED <<cfgIn, getPc, getRet, fetches, getErr, pctRet>>

\* func (d *DownloadClient) Cancel(): empty.
Cancel ==
    /\ client.constructed
    /\ UNCHANGED dvars
    /\ UNCHANGED cvars

\* Get returning the destination path whether or not gc.Get() failed.
GetResultAlwaysPath(c, e) == [path |-> c.TargetPath, err |-> e]

\* The two return statements of Get after gc.Get(): ("", err) or (TargetPath, err).
GetResult(c, e) == IF e /= Nil THEN [path |-> "", err |-> e]
                               ELSE [path |-> c.TargetPath, err |-> e]

NotReturned == [path |-> "", err |-> "pending"]

\* Get, entry: pwd, err := os.Getwd(), and its error return.
GetCall ==
    /\ client.constructed
    /\ getPc \in {"idle", "returned"}
    /\ fetches' = 0
    /\ \E e \in {Nil, "errGetwd"} :
        /\ getErr' = e
        /\ IF e /= Nil THEN /\ getRet' = [path |-> "", err |-> e]
                            /\ getPc' = "returned"
                       ELSE /\ getRet' = NotReturned
                            /\ getPc' = "fetch"
    /\ UNCHANGED dvars
    /\ UNCHANGED <<cfg, cfgIn, client, pctRet>>

\* err = gc.Get() of the go-getter client, and the return that follows it.
GetFetch ==
    /\ getPc = "fetch"
    /\ fetches' = fetches + 1
    /\ \E e \in {Nil, "errFetch"} :
        /\ getErr' = e
        /\ getRet' = GetResult(cfg, e)
    /\ getPc' = "returned"
    /\ UNCHANGED dvars
    /\ UNCHANGED <<cfg, cfgIn, client, pctRet>>

Get == GetCall \/ GetFetch

RECURSIVE GCD(_, _)
GCD(a, b) == IF b = 0 THEN a ELSE GCD(b, a % b)

IsPowerOfTwo(n) == \E e \in 0..UintBits : n = 2 ^ e

\* int(x) for a float64 x that is NaN or +Inf: the Go specification leaves the
\* value to the implementation (the minimum int on amd64; 0 for NaN and the
\* maximum int for +Inf on arm64).
IntOfNaN == {IntMin, 0, IntMax}
IntOfInf == {IntMin, IntMax}

\* int((float64(p) / float64(t)) * 100), as the set of values it can take.
\* p/t is rounded to a float64 first: the product is the exact percentage when
\* p/t is a dyadic fraction; when it is not and the exact percentage is a whole
\* number k, the rounded product truncates to k or to k - 1 (29/100 gives 28).
Percent(p, t) ==
    IF t = 0 THEN (IF p = 0 THEN IntOfNaN ELSE IntOfInf)
    ELSE LET k == (100 * p) \div t
         IN IF (100 * p) % t /= 0 \/ IsPowerOfTwo(t \div GCD(p, t))
            THEN {k}
            ELSE {k - 1, k}

\* The values PercentProgress may return for client c.
PercentProgressOf(c) ==
    IF c.downloader = 0 THEN {-1}
    ELSE Percent(Progress(c.downloader), Total(c.downloader))

\* A Get call has reached gc.Get(): the client's transfer has started.
TransferStarted == getPc = "fetch" \/ (getPc = "returned" /\ fetches > 0)

PercentProgress ==
    /\ client.constructed
    /\ \E v \in PercentProgressOf(client) :
        pctRet' = [called |-> TRUE, value |-> v, started |-> TransferStarted,
                   downloader |-> client.downloader,
                   progress |-> IF client.downloader = 0 THEN 0
                                ELSE Progress(client.downloader),
                   total |-> IF client.downloader = 0 THEN 0
                             ELSE Total(client.downloader)]
    /\ UNCHANGED dvars
    /\ UNCHANGED <<cfg, cfgIn, client, getPc, getRet, fetches, getErr>>

\* ------------------------------------------------------- specification
Sources == {SourceOf(n) : n \in 0..MaxSrc}

\* The destination as the caller opened it: a prefix of the source left by an
\* interrupted transfer, or older content; the handle at its start or its end.
Destinations(s) == {SubSeq(s, 1, k) : k \in 0..Len(s)}
                   \cup {StaleOf(k) : k \in 1..MaxStale}

Configs ==
    [Url : {"http://host/file"}, TargetPath : {"/tmp/file"},
     DownloaderMap : {[isNil |-> TRUE, m |-> [x \in {} |-> 0]],
                      [isNil |-> FALSE, m |-> [x \in {"http"} |-> 1]]},
     CopyFile : {FALSE}, Hash : {"sha256"}, Checksum : {<<1>>},
     UserAgent : {"packer"}]

InitCommon ==
    /\ src \in Sources
    /\ file \in Destinations(src)
    /\ dst0 = file
    /\ pos \in {0, Len(file)}
    /\ heap = (1 :> NewHTTPDownloader(""))
    /\ dl = 0 /\ pc = "idle" /\ ret = "none"
    /\ req = NoHeaders /\ probe = NoProbe /\ resp = NoResponse
    /\ body = << >> /\ buffer = << >> /\ eof = FALSE /\ firstOff = -1
    /\ sent = << >> /\ ioErr = "none" /\ wire = << >>
    /\ cfg \in Configs
    /\ cfgIn = cfg
    /\ getPc = "idle" /\ getRet = NotReturned /\ fetches = 0 /\ getErr = Nil
    /\ pctRet = [called |-> FALSE, value |-> 0, started |-> FALSE,
                 downloader |-> 0, progress |-> 0, total |-> 0]

Init ==
    /\ InitCommon
    /\ client = [constructed |-> FALSE, downloader |-> 0]

Next ==
    \/ Download
    \/ HTTPCancel
    \/ NewDownloadClient
    \/ Get
    \/ PercentProgress
    \/ Cancel

Spec == Init /\ [][Next]_vars

\* The same program with a client whose downloader field code of package common
\* may have set to the HTTPDownloader at address 1 (no function of download.go
\* assigns the field): the inputs of PercentProgress drawn from its whole domain.
InitActive ==
    /\ InitCommon
    /\ client = [constructed |-> TRUE, downloader |-> 1]

SpecActive == InitActive /\ [][Next]_vars

\* The Download call taken alone, and run to its end. Download blocks its
\* caller's goroutine and no other operation touches its variables, so its
\* next step is taken whenever it has one.
SpecDownload == Init /\ [][Download]_vars /\ WF_vars(Download)

\* ------------------------------------------------------- claims
Returned == pc = "done"
Succeeded == pc = "done" /\ ret = Nil
ProbeSent == probe.err /= "unsent"
Is2xx(st) == st >= 200 /\ st < 300
ProbeFailed == ProbeSent /\ (probe.err /= Nil \/ ~Is2xx(probe.status))
\* The probe answered 2xx with Accept-Ranges: bytes.
ProbeAdvertisesRanges ==
    probe.err = Nil /\ Is2xx(probe.status) /\ probe.acceptRanges = "bytes"
Resumed == ProbeSent /\ ProbeAdvertisesRanges /\ probe.fs = "ok"
IsPrefix(a, b) == Len(a) <= Len(b) /\ a = SubSeq(b, 1, Len(a))

\* C1: whenever Download has returned without error, progress() equals total()
\* and both equal the number of bytes in the destination file.
C1_SuccessCountersEqualFileSize ==
    Succeeded => /\ Progress(dl) = Total(dl)
                 /\ Progress(dl) = Len(file)

\* C2: when the destination held a prefix of the source and the probe advertised
\* Accept-Ranges: bytes, a successful Download leaves the destination equal to
\* what a full download into an empty destination leaves: the source.
\* Stated for S > 0, where the call is not itself the fresh download.
C2_ResumeIdempotent ==
    (/\ Succeeded
     /\ Len(dst0) > 0 /\ IsPrefix(dst0, src)
     /\ probe.err = Nil /\ probe.acceptRanges = "bytes")
        => file = src

\* C3: when the probe failed in transport, was not 2xx or carried no
\* Accept-Ranges: bytes, the GET has no Range header, progress is 0 when the GET
\* is issued, and the first body byte is written at destination offset 0.
C3_NoRangeStartsAtZero ==
    (ProbeSent /\ ~ProbeAdvertisesRanges)
        => /\ req.Range = << >>
           /\ (pc = "get" => Progress(dl) = 0 /\ pos = 0)
           /\ firstOff \in {-1, 0}

\* C3 witness: a destination that held content, at whose end the handle may have
\* stood, was overwritten from offset 0 after a probe without range support.
C3_Witness ==
    /\ Succeeded /\ ProbeSent /\ ~ProbeAdvertisesRanges
    /\ Len(dst0) > 0 /\ firstOff = 0 /\ req.Range = << >>

\* C4: PercentProgress returns -1 before the client's transfer has started, and
\* an integer in [0,100], the floor of 100 * progress / total, during and after
\* a transfer started by Get.
C4_PercentProgressRange ==
    pctRet.called =>
        IF ~pctRet.started THEN pctRet.value = -1
        ELSE /\ pctRet.value \in 0..100
             /\ pctRet.total /= 0
             /\ pctRet.value = (100 * pctRet.progress) \div pctRet.total

C6_StatusErrorSurfaced ==
    (Returned /\ resp.status /= 0 /\ ~Is2xx(resp.status)) => ret /= Nil

\* C7: a failed probe (transport error or non-2xx) never ends Download: the GET
\* is issued without Range; and when the GET answers 200 with the full body the
\* only errors left are those of reading and writing, and on success the
\* destination holds the full body from offset 0.
C7_ProbeFailureNotFatal ==
    ProbeFailed =>
        /\ req.Range = << >>
        /\ ret \in {"none", Nil, "errGet", "errRead", "errWrite"}
        /\ (Returned => (resp.status /= 0 \/ ret = "errGet"))
        /\ (Returned /\ resp.status = 200) =>
              /\ ret \in {Nil, "errRead", "errWrite"}
              /\ ret = Nil => /\ IsPrefix(src, file)
                              /\ firstOff = (IF Len(src) > 0 THEN 0 ELSE -1)

\* C7 witness: the probe answered 404, the GET 200, and Download succeeded over
\* older destination content.
C7_Witness ==
    /\ Succeeded /\ probe.err = Nil /\ probe.status = 404 /\ resp.status = 200
    /\ probe.acceptRanges = "bytes"
    /\ Len(src) > 0 /\ Len(dst0) > 0 /\ ~IsPrefix(dst0, src) /\ IsPrefix(src, file)

\* C8: Get returns the destination path with no error exactly when the fetch
\* succeeded; otherwise it returns the error of os.Getwd or of the fetch
\* unchanged, with no path; the fetch is attempted at most once per call.
C8_GetResult ==
    /\ fetches <= 1
    /\ getPc = "returned" =>
        /\ getRet.err = getErr
        /\ (getRet.err = Nil /\ getRet.path = cfg.TargetPath)
              <=> (fetches = 1 /\ getErr = Nil)
        /\ getErr /= Nil => getRet.path = ""
        /\ getErr = "errGetwd" => fetches = 0

\* C8 witness: a Get whose fetch failed has returned.
C8_Witness ==
    getPc = "returned" /\ fetches = 1 /\ getErr = "errFetch" /\ getRet.err = "errFetch"

\* C9: after the initial reset, no step of a Download call decreases progress().
C9_ProgressMonotonic ==
    [][(pc \notin {"idle", "reset"}) => heap'[dl].progress >= heap[dl].progress]_vars

\* C9 witness: a resumed transfer has advanced progress past the resume offset.
C9_Witness ==
    /\ Succeeded /\ Resumed /\ Len(dst0) > 0
    /\ Progress(dl) > Len(dst0)

\* The registry NewDownloadClient installs: exactly http and https, each a fresh
\* HTTPDownloader with the configured user-agent and both counters 0.
DefaultRegistryInstalled ==
    LET m == cfg'.DownloaderMap.m
    IN /\ ~cfg'.DownloaderMap.isNil
       /\ DOMAIN m = {"http", "https"}
       /\ m["http"] /= m["https"]
       /\ \A k \in DOMAIN m :
            /\ m[k] \notin DOMAIN heap
            /\ m[k] \in DOMAIN heap'
            /\ heap'[m[k]] = [progress |-> 0, total |-> 0,
                              userAgent |-> cfg.UserAgent]
       /\ cfg' = [cfg EXCEPT !.DownloaderMap = cfg'.DownloaderMap]

\* C10: the configuration changes only when a client is constructed over a
\* configuration without registry, and then only by the default registry;
\* every other step (construction over a supplied registry, Get,
\* PercentProgress, Cancel, Download) leaves it as it is.
C10_ConfigFrame ==
    [][/\ cfg' /= cfg => (NoDownloaderMap(cfg) /\ client'.constructed
                           /\ DefaultRegistryInstalled)
       /\ (~client.constructed /\ client'.constructed /\ NoDownloaderMap(cfg))
             => DefaultRegistryInstalled
       /\ (client'.constructed /\ ~cfgIn.DownloaderMap.isNil) => cfg' = cfgIn]_vars

\* C10 witness: a client was constructed over a configuration without registry,
\* then Get returned and PercentProgress was called.
C10_Witness ==
    /\ client.constructed /\ cfgIn.DownloaderMap.isNil /\ ~cfg.DownloaderMap.isNil
    /\ getPc = "returned" /\ pctRet.called

\* The Download call has passed the probe.
PastProbe == pc \in {"get", "total", "read", "write", "done"} /\ ProbeSent

\* C11: the GET carries a Range header exactly when the probe answered 2xx with
\* Accept-Ranges: bytes, the destination's size S was obtained and the seek to
\* its end succeeded; then, when the GET is issued, the header is bytes=S-,
\* progress is S and the write offset is S.
C11_RangeIffResumable ==
    PastProbe =>
        /\ (req.Range /= << >>) <=> (ProbeAdvertisesRanges /\ probe.fs = "ok")
        /\ (req.Range /= << >>) => req.Range = <<"bytes=", Len(dst0), "-">>
        /\ (pc = "get" /\ req.Range /= << >>)
              => /\ Progress(dl) = Len(dst0)
                 /\ pos = Len(dst0)

\* C11 witness: the GET is about to go out with Range: bytes=S- for an S > 0.
C11_Witness ==
    /\ pc = "get" /\ Len(dst0) > 0
    /\ req.Range = <<"bytes=", Len(dst0), "-">>
    /\ Progress(dl) = Len(dst0) /\ pos = Len(dst0)

\* C12: within a Download call total is assigned once, by the step between the
\* arrival of the GET response and the first Read, to the progress counter as it
\* was when the GET was issued plus the response's content-length (in uint
\* arithmetic); no other step changes it, whether the call ends in success or
\* in error.
C12_TotalSetOnce ==
    [][/\ \A id \in DOMAIN heap :
            heap'[id].total /= heap[id].total
                => (id = dl /\ pc = "total" /\ pc' = "read")
       /\ (pc = "get" /\ pc' /= "get")
            => (heap'[dl].progress = heap[dl].progress /\ pc' \in {"total", "done"})
       /\ (pc = "total" /\ pc' /= "total")
            => /\ pc' = "read"
               /\ Len(body) = Len(sent)
               /\ heap'[dl].total =
                    (heap[dl].progress + resp.ContentLength) % UintMod
       /\ (pc' = "read" /\ pc /= "read") => pc \in {"total", "write"}]_vars

\* C12 witness: a resumed transfer that failed in a Write, with total still the
\* resume offset plus the content-length.
C12_Witness ==
    /\ Returned /\ ret = "errWrite" /\ Resumed /\ Len(dst0) > 0
    /\ resp.ContentLength > 0
    /\ Total(dl) = Len(dst0) + resp.ContentLength

\* The offset the transfer started writing at, and the bytes it has written.
ResumeOffset == IF Resumed THEN Len(dst0) ELSE 0
Written == pos - ResumeOffset

\* C13: in every state of a Download call, a failed Write included, progress()
\* is at most the resume offset plus the bytes the transfer has written.
C13_ProgressWithinWritten ==
    PastProbe => Progress(dl) <= ResumeOffset + Written

\* C14: however the body is cut into Reads of at most BufferSize bytes, the
\* bytes written from the starting offset are the body's bytes in order: a
\* prefix of the body at every moment, and the whole body on success.
C14_ChunksReconstructBody ==
    (PastProbe /\ resp.status /= 0) =>
        /\ Written <= Len(sent)
        /\ Len(file) >= pos
        /\ SubSeq(file, ResumeOffset + 1, pos) = SubSeq(sent, 1, Written)
        /\ (pc \in {"total", "read"} => Written + Len(body) = Len(sent))
        /\ (pc = "write" => /\ Written + Len(buffer) + Len(body) = Len(sent)
                            /\ Len(buffer) <= BufferSize)
        /\ Succeeded => Written = Len(sent)

\* C14 witness: a body of BufferSize + 1 bytes was streamed in full over older
\* destination content.
C14_Witness ==
    /\ Succeeded /\ Len(sent) = BufferSize + 1 /\ Len(dst0) > 0
    /\ SubSeq(file, ResumeOffset + 1, ResumeOffset + Len(sent)) = sent

\* C15: when a body Read fails (not with io.EOF) or a Write fails, Download
\* returns that very error at once, writes nothing after the failure, and the
\* bytes written before it stay in the destination.
C15_IoErrorAborts ==
    /\ [](ioErr /= "none" => (pc = "done" /\ ret = ioErr))
    /\ [][/\ ioErr /= "none" => (file' = file /\ pos' = pos /\ ret' = ret)
          /\ (ioErr = "none" /\ ioErr' /= "none")
                => /\ pc \in {"read", "write"}
                   /\ Len(file') >= Len(file)
                   /\ \A i \in 1..pos : file'[i] = file[i]
                   /\ pc = "read" => (ioErr' = "errRead" /\ file' = file)
                   /\ pc = "write" => ioErr' = "errWrite"]_vars

\* C15 witness: a Write failed after the transfer had written bytes, and the
\* call has returned that error with those bytes in place.
C15_Witness ==
    /\ Returned /\ ioErr = "errWrite" /\ ret = "errWrite"
    /\ Written > 0
    /\ SubSeq(file, ResumeOffset + 1, pos) = SubSeq(sent, 1, Written)

\* C16: a Download call issues at most one probe and at most one GET, the probe
\* first, and repeats neither; a GET that fails in transport ends the call at
\* once with that error, no byte written and total as it was.
C16_OneProbeOneGet ==
    /\ [](/\ wire \in {<< >>, <<"HEAD">>, <<"HEAD", "GET">>}
          /\ (pc \in {"idle", "reset", "head"} => wire = << >>)
          /\ (pc = "get" => wire = <<"HEAD">>)
          /\ ret = "errGet" => (pc = "done" /\ file = dst0 /\ firstOff = -1
                                /\ resp = NoResponse))
    /\ [][/\ (ret /= "errGet" /\ ret' = "errGet")
                => (pc = "get" /\ heap' = heap /\ file' = file)
          /\ ret = "errGet" => (heap'[dl].total = heap[dl].total /\ wire' = wire)]_vars

\* C16 witness: the probe was answered, the GET failed in transport, and the
\* call has returned over a destination that held content.
C16_Witness ==
    /\ Returned /\ ret = "errGet" /\ wire = <<"HEAD", "GET">>
    /\ probe.err = Nil /\ Len(dst0) > 0 /\ file = dst0

\* C17: once the loop is entered Download returns (every Read delivers bytes,
\* io.EOF or an error, and the body is finite); the loop is left without error
\* by the first Read that reports io.EOF, after that Read's bytes are written,
\* and by no other successful Read.
C17_LoopTerminates ==
    /\ (pc = "read") ~> (pc = "done")
    /\ [][/\ (pc = "write" /\ pc' = "done" /\ ret' = Nil)
                => (eof /\ pos' = pos + Len(buffer)
                        /\ SubSeq(file', pos + 1, pos') = buffer)
          /\ (pc = "write" /\ pc' = "read") => ~eof
          /\ (pc = "write" /\ eof /\ pc' /= "write") => pc' = "done"]_vars

\* C17 witness: a body longer than the buffer was read to io.EOF and the call
\* has returned.
C17_Witness ==
    /\ Succeeded /\ eof /\ Len(sent) > BufferSize /\ Written = Len(sent)

\* total() has been set by the running call.
TotalSet == pc \in {"read", "write", "done"} /\ resp.status /= 0

\* C18: once total() is set, an observer reading the counters of a fresh
\* HTTPDownloader at any moment of its Download sees progress() <= total(), for
\* every resume offset and content-length, an undeclared one (-1) included.
C18_ProgressWithinTotal ==
    TotalSet => Progress(dl) <= Total(dl)

====
